---- MODULE Spec2Model ----
(***************************************************************************)
(* HydrologicalSimulator of data_processing_pipeline.py: the SCS runoff    *)
(* formula, the water-level conversion, the risk classification and the   *)
(* hourly flood progression with its draws from numpy's global generator.  *)
(*                                                                         *)
(* Numbers.  The program computes in floats; the model computes in fixed   *)
(* point, every division rounding down:                                    *)
(*   rainfall, runoff, retention, abstraction   tenths of a millimetre     *)
(*   water depth (calculate_water_level)        1/10000 metre              *)
(*   progress, factors, noise, progression level   thousandths             *)
(***************************************************************************)
EXTENDS Integers, Sequences, FiniteSets, TLC

VARIABLES
    calls,          \* direct calls of a static method made so far, with their outcome
    rainfall,       \* main(): test_rainfall
    soil_type,      \* main(): the soil_type argument
    area_km2,       \* main(): the area_km2 argument
    main_pc,        \* main(): position in the simulation demo
    runoff,         \* main(): runoff
    water_level,    \* main(): water_level
    risk,           \* main(): (risk_level, risk_num)
    sims,           \* the invocations of simulate_flood_progression, by id
    rng_stream,     \* np.random: the values the seeded global generator yields, in order
    rng_pos         \* np.random: the index of the next value of the global generator

vars == <<calls, rainfall, soil_type, area_km2, main_pc, runoff, water_level, risk,
          sims, rng_stream, rng_pos>>

-----------------------------------------------------------------------------
(* Bounds of the model.                                                    *)

MaxCalls == 2
MaxDuration == 3
MaxSharedDuration == 2
MaxCurveDuration == 10

-----------------------------------------------------------------------------
(* Fixed-point helpers.                                                    *)

\* x millimetres, in tenths of a millimetre
MM(x) == x * 10

\* x tenths of a metre, in 1/10000 metre (Metres(25) is 2.5 m)
Metres(x) == x * 1000

\* the number x, in thousandths
Fx(x) == x * 1000

\* a * b for two numbers in thousandths
Mul(a, b) == (a * b) \div Fx(1)

\* a / b for two numbers in thousandths
Div(a, b) == (a * Fx(1)) \div b

\* the largest s in lo..hi with s * s <= n, by bisection (lo * lo <= n)
RECURSIVE IntSqrt(_, _, _)
IntSqrt(n, lo, hi) ==
    IF lo >= hi THEN lo
    ELSE LET mid == (lo + hi + 1) \div 2
         IN  IF mid * mid <= n THEN IntSqrt(n, mid, hi) ELSE IntSqrt(n, lo, mid - 1)

\* the square root of a number 0 <= x <= 1 in thousandths, rounded down
Sqrt(x) == IntSqrt(x * Fx(1), 0, Fx(1))

\* x ** 1.5 for 0 <= x <= 1 in thousandths
Pow15(x) == Mul(x, Sqrt(x))

\* x ** 2 in thousandths
Pow2(x) == Mul(x, x)

\* Python's max(0, x)
Max0(x) == IF x > 0 THEN x ELSE 0

NoValue == "NoValue"

-----------------------------------------------------------------------------
(* HydrologicalSimulator.calculate_runoff                                  *)

curve_numbers == [high |-> 85, medium |-> 70, low |-> 55]

\* dict.get(key, default)
DictGet(d, key, default) == IF key \in DOMAIN d THEN d[key] ELSE default

\* variant: the fallback curve number taken from "high" instead of "medium"
CurveNumberDefaultHigh(soil) == DictGet(curve_numbers, soil, 85)

\* cn = curve_numbers.get(soil_type, 70)
CurveNumber(soil) == DictGet(curve_numbers, soil, 70)

\* s = (25400 / cn) - 254
Retention(cn) == (MM(25400) \div cn) - MM(254)

\* ia = 0.2 * s
InitialAbstraction(s) == (2 * s) \div 10

\* runoff = ((rainfall - ia) ** 2) / (rainfall - ia + s)
RunoffFormula(rain, ia, s) == ((rain - ia) * (rain - ia)) \div (rain - ia + s)

\* variant: the formula applied without the rainfall <= ia branch
calculate_runoff_no_abstraction(rain, soil) ==
    LET s == Retention(CurveNumber(soil))
        ia == InitialAbstraction(s)
    IN  RunoffFormula(rain, ia, s)

calculate_runoff(rain, soil) ==
    LET s == Retention(CurveNumber(soil))
        ia == InitialAbstraction(s)
    IN  IF rain <= ia THEN 0 ELSE RunoffFormula(rain, ia, s)

-----------------------------------------------------------------------------
(* HydrologicalSimulator.calculate_water_level                             *)

\* runoff / 1000 turns tenths of a millimetre into 1/10000 metre: the same number;
\* terrain_factor = 1.5.  volume_m3 is computed and dropped, area is unused.
calculate_water_level(ro, area) ==
    LET avg_depth_m == ro
    IN  (avg_depth_m * 15) \div 10

-----------------------------------------------------------------------------
(* HydrologicalSimulator.classify_flood_risk                               *)

\* variant: the thresholds compared with >= instead of >
classify_flood_risk_inclusive(level, rain) ==
    IF level >= Metres(40) \/ rain >= MM(500) THEN <<"EXTREME", 4>>
    ELSE IF level >= Metres(25) \/ rain >= MM(350) THEN <<"HIGH", 3>>
    ELSE IF level >= Metres(15) \/ rain >= MM(200) THEN <<"MEDIUM", 2>>
    ELSE <<"LOW", 1>>

classify_flood_risk(level, rain) ==
    IF level > Metres(40) \/ rain > MM(500) THEN <<"EXTREME", 4>>
    ELSE IF level > Metres(25) \/ rain > MM(350) THEN <<"HIGH", 3>>
    ELSE IF level > Metres(15) \/ rain > MM(200) THEN <<"MEDIUM", 2>>
    ELSE <<"LOW", 1>>

-----------------------------------------------------------------------------
(* HydrologicalSimulator.simulate_flood_progression                        *)

\* peak_time = 0.7
peak_time == 700

\* np.random.uniform(-0.1, 0.1)
uniform_low == -100
uniform_high == 100

\* values of [uniform_low, uniform_high) the generator is modelled to yield
NoiseSet == {uniform_low, 0, uniform_high - 1}

\* variant: range(duration_hours), which leaves out the last hour
range_stop_exclusive(duration) == duration

\* range(duration_hours + 1) stops before duration_hours + 1
range_stop(duration) == duration + 1

\* progress = hour / duration_hours
Progress(hour, duration) == Div(Fx(hour), Fx(duration))

\* rainfall / 100, a rainfall in tenths of a millimetre giving thousandths
RainfallOver100(rain) == Fx(rain) \div MM(100)

\* level = (rainfall / 100) * (progress / peak_time) ** 1.5
RisingLevel(rain, progress) ==
    Mul(RainfallOver100(rain), Pow15(Div(progress, peak_time)))

\* variant: 1 + recession_factor in place of 1 - recession_factor
RecessionLevelNoDecay(rain, progress) ==
    LET recession_factor == Div(progress - peak_time, Fx(1) - peak_time)
    IN  Mul(RainfallOver100(rain), Pow2(Fx(1) + recession_factor))

\* recession_factor = (progress - peak_time) / (1 - peak_time)
\* level = (rainfall / 100) * (1 - recession_factor) ** 2
RecessionLevel(rain, progress) ==
    LET recession_factor == Div(progress - peak_time, Fx(1) - peak_time)
    IN  Mul(RainfallOver100(rain), Pow2(Fx(1) - recession_factor))

\* the level of one hour before the random variation
Level(rain, hour, duration) ==
    LET progress == Progress(hour, duration)
    IN  IF progress < peak_time
        THEN RisingLevel(rain, progress)
        ELSE RecessionLevel(rain, progress)

\* variant: the variation added to the level instead of scaled by it
AddNoiseAdditive(level, noise) == level + noise

\* level += level * np.random.uniform(-0.1, 0.1)
AddNoise(level, noise) == level + Mul(level, noise)

\* one iteration's appended value: max(0, level)
Sample(rain, hour, duration, noise) ==
    Max0(AddNoise(Level(rain, hour, duration), noise))

\* an invocation at its entry: water_levels = [], the loop not yet started
NewSim(rain, duration) ==
    [rainfall |-> rain, duration_hours |-> duration, hour |-> 0,
     water_levels |-> <<>>, pc |-> "loop", error |-> "none", first_draw |-> 0]

\* One iteration of the for loop of invocation i: the division hour / duration_hours
\* raises for duration_hours = 0; otherwise one value is drawn from the global
\* generator and one sample appended.
LoopBody(i) ==
    LET sim == sims[i]
    IN  /\ sim.pc = "loop"
        /\ sim.hour < range_stop(sim.duration_hours)
        /\ IF sim.duration_hours = 0
           THEN /\ sims' = [sims EXCEPT ![i].pc = "raised",
                                        ![i].error = "ZeroDivisionError"]
                /\ UNCHANGED rng_pos
           ELSE /\ rng_pos <= Len(rng_stream)
                /\ sims' = [sims EXCEPT
                      ![i].water_levels =
                          Append(@, Sample(sim.rainfall, sim.hour, sim.duration_hours,
                                           rng_stream[rng_pos])),
                      ![i].hour = @ + 1,
                      ![i].first_draw = IF sim.hour = 0 THEN rng_pos ELSE @]
                /\ rng_pos' = rng_pos + 1
        /\ UNCHANGED <<calls, rainfall, soil_type, area_km2, main_pc, runoff,
                       water_level, risk, rng_stream>>

\* The range is exhausted: return water_levels
Return(i) ==
    /\ sims[i].pc = "loop"
    /\ sims[i].hour >= range_stop(sims[i].duration_hours)
    /\ sims' = [sims EXCEPT ![i].pc = "returned"]
    /\ UNCHANGED <<calls, rainfall, soil_type, area_km2, main_pc, runoff,
                   water_level, risk, rng_stream, rng_pos>>

Simulate(i) == LoopBody(i) \/ Return(i)

\* the number of values an invocation draws: one per iteration that computes a level
Draws(duration) == IF duration >= 1 THEN range_stop(duration) ELSE 0

\* the series an invocation returns when its draws are the consecutive values of
\* the generator from index first on
SeriesFrom(rain, duration, first) ==
    [h \in 1..range_stop(duration) |->
        Sample(rain, h - 1, duration, rng_stream[first + h - 1])]

-----------------------------------------------------------------------------
(* main(): the hydrological simulation demo, for any scenario              *)

CalculateRunoff ==
    /\ main_pc = "runoff"
    /\ runoff' = calculate_runoff(rainfall, soil_type)
    /\ main_pc' = "water_level"
    /\ UNCHANGED <<calls, rainfall, soil_type, area_km2, water_level, risk,
                   sims, rng_stream, rng_pos>>

CalculateWaterLevel ==
    /\ main_pc = "water_level"
    /\ water_level' = calculate_water_level(runoff, area_km2)
    /\ main_pc' = "risk"
    /\ UNCHANGED <<calls, rainfall, soil_type, area_km2, runoff, risk,
                   sims, rng_stream, rng_pos>>

ClassifyFloodRisk ==
    /\ main_pc = "risk"
    /\ risk' = classify_flood_risk(water_level, rainfall)
    /\ main_pc' = "done"
    /\ UNCHANGED <<calls, rainfall, soil_type, area_km2, runoff, water_level,
                   sims, rng_stream, rng_pos>>

\* the demo not running: none of its variables holds a value
DemoIdle ==
    /\ main_pc = "idle"
    /\ rainfall = NoValue
    /\ soil_type = NoValue
    /\ area_km2 = NoValue
    /\ runoff = NoValue
    /\ water_level = NoValue
    /\ risk = NoValue

NoSimulation ==
    /\ sims = <<>>
    /\ rng_stream = <<>>
    /\ rng_pos = 1

-----------------------------------------------------------------------------
(* Spec: one scenario run through the demo and then simulated over time.   *)

ScenarioRainfalls == {MM(-1), 0, MM(22), MM(201), MM(450), MM(600)}
ScenarioSoilTypes == {"high", "medium", "low", "clay"}
ScenarioAreas == {50, 100}
ScenarioDurations == -1..MaxDuration

Init ==
    /\ calls = <<>>
    /\ rainfall \in ScenarioRainfalls
    /\ soil_type \in ScenarioSoilTypes
    /\ area_km2 \in ScenarioAreas
    /\ main_pc = "runoff"
    /\ runoff = NoValue
    /\ water_level = NoValue
    /\ risk = NoValue
    /\ \E duration \in ScenarioDurations :
          sims = [i \in {1} |-> NewSim(rainfall, duration)]
    /\ rng_stream \in [1..Draws(sims[1].duration_hours) -> NoiseSet]
    /\ rng_pos = 1

SimulateAfterDemo == main_pc = "done" /\ Simulate(1)

Next == CalculateRunoff \/ CalculateWaterLevel \/ ClassifyFloodRisk \/ SimulateAfterDemo

Spec == Init /\ [][Next]_vars

-----------------------------------------------------------------------------
(* SpecRunoff, SpecClassify: direct calls of one static method, each call   *)
(* logged with its arguments and its outcome.                               *)

RunoffRainfalls ==
    {MM(-5), -1, 0, 89, 90, 217, 218, 415, 416, MM(100), MM(450), MM(1000)}
RunoffSoilTypes == {"high", "medium", "low", "clay", "HIGH"}

ClassifyLevels ==
    {-1, 0, Metres(15), Metres(15) + 1, Metres(25), Metres(25) + 1,
     Metres(40), Metres(40) + 1, Metres(50)}
ClassifyRainfalls ==
    {-1, 0, MM(200), MM(200) + 1, MM(350), MM(350) + 1, MM(500), MM(500) + 1, MM(600)}

InitCalls ==
    /\ calls = <<>>
    /\ DemoIdle
    /\ NoSimulation

\* calculate_runoff(rain, soil) called: no statement of it raises, it returns
CallCalculateRunoff ==
    /\ Len(calls) < MaxCalls
    /\ \E rain \in RunoffRainfalls, soil \in RunoffSoilTypes :
          calls' = Append(calls,
              [fn |-> "calculate_runoff", rainfall |-> rain, soil_type |-> soil,
               cn |-> CurveNumber(soil), raised |-> "none",
               result |-> calculate_runoff(rain, soil)])
    /\ UNCHANGED <<rainfall, soil_type, area_km2, main_pc, runoff, water_level, risk,
                   sims, rng_stream, rng_pos>>

\* classify_flood_risk(level, rain) called: no statement of it raises, it returns
CallClassifyFloodRisk ==
    /\ Len(calls) < MaxCalls
    /\ \E level \in ClassifyLevels, rain \in ClassifyRainfalls :
          calls' = Append(calls,
              [fn |-> "classify_flood_risk", water_level |-> level, rainfall |-> rain,
               raised |-> "none", result |-> classify_flood_risk(level, rain)])
    /\ UNCHANGED <<rainfall, soil_type, area_km2, main_pc, runoff, water_level, risk,
                   sims, rng_stream, rng_pos>>

NextRunoff == CallCalculateRunoff

SpecRunoff == InitCalls /\ [][NextRunoff]_vars

NextClassify == CallClassifyFloodRisk

SpecClassify == InitCalls /\ [][NextClassify]_vars

-----------------------------------------------------------------------------
(* SpecShared: two invocations of simulate_flood_progression in one process, *)
(* their iterations interleaved in any order (threads), both drawing from    *)
(* the one global generator of np.random.                                    *)

SharedRainfalls == {MM(100), MM(450)}
SharedDurations == 1..MaxSharedDuration

InitShared ==
    /\ calls = <<>>
    /\ DemoIdle
    /\ \E r1 \in SharedRainfalls, r2 \in SharedRainfalls,
          d1 \in SharedDurations, d2 \in SharedDurations :
          sims = [i \in {1, 2} |-> IF i = 1 THEN NewSim(r1, d1) ELSE NewSim(r2, d2)]
    /\ rng_stream \in
          [1..(Draws(sims[1].duration_hours) + Draws(sims[2].duration_hours)) -> NoiseSet]
    /\ rng_pos = 1

NextShared == \E i \in DOMAIN sims : Simulate(i)

SpecShared == InitShared /\ [][NextShared]_vars

-----------------------------------------------------------------------------
(* SpecCurve: one invocation whose every draw is 0.0, so that the series is  *)
(* the curve before the random variation.                                    *)

CurveRainfalls == {1, MM(100), MM(450)}
CurveDurations == 1..MaxCurveDuration

InitCurve ==
    /\ calls = <<>>
    /\ DemoIdle
    /\ \E rain \in CurveRainfalls, duration \in CurveDurations :
          sims = [i \in {1} |-> NewSim(rain, duration)]
    /\ rng_stream = [k \in 1..Draws(sims[1].duration_hours) |-> 0]
    /\ rng_pos = 1

NextCurve == Simulate(1)

SpecCurve == InitCurve /\ [][NextCurve]_vars

-----------------------------------------------------------------------------
(* Properties.                                                             *)

ClassifyCalls == {k \in 1..Len(calls) : calls[k].fn = "classify_flood_risk"}
RunoffCalls == {k \in 1..Len(calls) : calls[k].fn = "calculate_runoff"}

\* C1: for non-negative water level and rainfall, classify_flood_risk returns the
\* first tier that matches, from the most severe down: EXTREME/4 above 4.0 m or
\* above 500 mm, else HIGH/3 above 2.5 m or 350 mm, else MEDIUM/2 above 1.5 m or
\* 200 mm, else LOW/1.  A value equal to a threshold does not trigger its tier,
\* and the label always comes with its own code.
C1_FirstMatchingTier ==
    \A k \in ClassifyCalls :
        LET c == calls[k]
            extreme == c.water_level > Metres(40) \/ c.rainfall > MM(500)
            high == c.water_level > Metres(25) \/ c.rainfall > MM(350)
            medium == c.water_level > Metres(15) \/ c.rainfall > MM(200)
        IN  (c.water_level >= 0 /\ c.rainfall >= 0) =>
               /\ c.raised = "none"
               /\ extreme => c.result = <<"EXTREME", 4>>
               /\ (~extreme /\ high) => c.result = <<"HIGH", 3>>
               /\ (~extreme /\ ~high /\ medium) => c.result = <<"MEDIUM", 2>>
               /\ (~extreme /\ ~high /\ ~medium) => c.result = <<"LOW", 1>>
               /\ c.result \in {<<"EXTREME", 4>>, <<"HIGH", 3>>, <<"MEDIUM", 2>>, <<"LOW", 1>>}

\* a call with the water level exactly 4.0 m and the rainfall exactly 350 mm, which
\* lands two tiers below EXTREME, and a call just above 350 mm, which is HIGH
C1_Witness ==
    /\ \E k \in ClassifyCalls :
          /\ calls[k].water_level = Metres(40)
          /\ calls[k].rainfall = MM(350)
          /\ calls[k].result = <<"HIGH", 3>>
    /\ \E k \in ClassifyCalls :
          /\ calls[k].water_level = Metres(15)
          /\ calls[k].rainfall = MM(200)
          /\ calls[k].result = <<"LOW", 1>>

\* C3: calculate_runoff fails with InvalidInput whenever the rainfall is negative,
\* for every soil type, and never returns a runoff for a negative rainfall.
C3_NegativeRainfallRejected ==
    \A k \in RunoffCalls :
        calls[k].rainfall < 0 => calls[k].raised = "InvalidInput"

\* C7: an unrecognized soil type is no error: for every rainfall >= 0 such a call
\* returns exactly what the call with "medium" (curve number 70) returns, and the
\* recognized types resolve to the curve numbers high 85, medium 70, low 55.
C7_UnknownSoilIsMedium ==
    /\ \A k \in RunoffCalls :
          LET c == calls[k]
          IN  /\ c.soil_type = "high" => c.cn = 85
              /\ c.soil_type = "medium" => c.cn = 70
              /\ c.soil_type = "low" => c.cn = 55
              /\ (c.soil_type \notin {"high", "medium", "low"} /\ c.rainfall >= 0) =>
                    c.raised = "none" /\ c.cn = 70
    /\ \A j, k \in RunoffCalls :
          (/\ calls[j].soil_type \notin {"high", "medium", "low"}
           /\ calls[k].soil_type = "medium"
           /\ calls[j].rainfall = calls[k].rainfall
           /\ calls[j].rainfall >= 0) =>
              calls[j].result = calls[k].result

\* 450 mm on an unrecognized soil type and on "medium" gave the same positive runoff
C7_Witness ==
    \E i, j \in RunoffCalls :
        /\ calls[i].soil_type = "clay" /\ calls[i].rainfall = MM(450)
        /\ calls[j].soil_type = "medium" /\ calls[j].rainfall = MM(450)
        /\ calls[i].result = calls[j].result
        /\ calls[i].result > 0

\* C8: for a fixed soil type the runoff never decreases as the rainfall grows from
\* 0 on, also across the initial abstraction, where the function switches from
\* returning 0 to the formula; and a rainfall of 0 gives a runoff of 0.
C8_RunoffMonotone ==
    /\ \A k \in RunoffCalls :
          calls[k].rainfall = 0 => calls[k].result = 0
    /\ \A j, k \in RunoffCalls :
          (/\ calls[j].soil_type = calls[k].soil_type
           /\ 0 <= calls[j].rainfall
           /\ calls[j].rainfall <= calls[k].rainfall) =>
              calls[j].result <= calls[k].result

\* two calls on "medium" on either side of its initial abstraction (21.7 mm): the
\* one at the abstraction returned 0, the one above it the formula's value
C8_Witness ==
    \E j, k \in RunoffCalls :
        /\ calls[j].soil_type = "medium" /\ calls[k].soil_type = "medium"
        /\ calls[j].rainfall = InitialAbstraction(Retention(70))
        /\ calls[k].rainfall = MM(100)
        /\ calls[j].result = 0
        /\ calls[k].result > 0

Finished(i) == sims[i].pc \in {"returned", "raised"}

AllSamples(i, P(_)) ==
    \A h \in 1..Len(sims[i].water_levels) : P(sims[i].water_levels[h])

\* C2: for rainfall >= 0 and duration_hours H >= 1, whatever the generator yields,
\* simulate_flood_progression returns exactly H + 1 samples, none of them negative.
C2_LengthAndNonNegative ==
    \A i \in DOMAIN sims :
        (sims[i].rainfall >= 0 /\ sims[i].duration_hours >= 1) =>
           /\ AllSamples(i, LAMBDA x : x >= 0)
           /\ Finished(i) =>
                 /\ sims[i].pc = "returned"
                 /\ Len(sims[i].water_levels) = sims[i].duration_hours + 1

\* 450 mm over 3 hours has returned, the first draws being the lowest value, 0 and
\* the highest value: the sample of hour 1 was lowered and is still positive
C2_Witness ==
    /\ sims[1].pc = "returned"
    /\ sims[1].rainfall = MM(450)
    /\ sims[1].duration_hours = 3
    /\ rng_stream[2] = uniform_low
    /\ rng_stream[3] = uniform_high - 1
    /\ sims[1].water_levels[2] > 0
    /\ sims[1].water_levels[2] < Level(MM(450), 1, 3)
    /\ sims[1].water_levels[3] > Level(MM(450), 2, 3)

\* C4: simulate_flood_progression fails with InvalidInput whenever rainfall < 0 or
\* duration_hours <= 0; it then returns no series, not even an empty one, and
\* fails in no other way.
C4_InvalidInputRejected ==
    \A i \in DOMAIN sims :
        (Finished(i) /\ (sims[i].rainfall < 0 \/ sims[i].duration_hours <= 0)) =>
            sims[i].pc = "raised" /\ sims[i].error = "InvalidInput"

\* C9: a rainfall of 0 gives a runoff of 0 for every soil type, a water level of 0
\* for every area, the tier LOW/1, and for every duration_hours >= 1 a series
\* of duration_hours + 1 samples that are all 0 whatever the generator yields.
C9_ZeroRainfall ==
    rainfall = 0 =>
       /\ main_pc \in {"water_level", "risk", "done"} => runoff = 0
       /\ main_pc \in {"risk", "done"} => water_level = 0
       /\ main_pc = "done" => risk = <<"LOW", 1>>
       /\ \A i \in DOMAIN sims :
             (sims[i].rainfall = 0 /\ sims[i].duration_hours >= 1) =>
                /\ AllSamples(i, LAMBDA x : x = 0)
                /\ Finished(i) =>
                      /\ sims[i].pc = "returned"
                      /\ Len(sims[i].water_levels) = sims[i].duration_hours + 1

\* no rain on the soil with the most runoff, classified and then simulated over 3
\* hours with non-zero draws
C9_Witness ==
    /\ rainfall = 0
    /\ soil_type = "high"
    /\ main_pc = "done"
    /\ risk = <<"LOW", 1>>
    /\ sims[1].pc = "returned"
    /\ sims[1].rainfall = 0
    /\ sims[1].duration_hours = 3
    /\ rng_stream[1] = uniform_low
    /\ rng_stream[2] = uniform_high - 1
    /\ sims[1].water_levels = <<0, 0, 0, 0>>

\* C5: under one seed, two invocations of simulate_flood_progression with the same
\* rainfall and duration_hours return the same series, element for element: the
\* series does not depend on the state earlier calls left in the process-wide
\* generator.
C5_SameInputsSameSeries ==
    \A i, j \in DOMAIN sims :
        (/\ sims[i].pc = "returned" /\ sims[j].pc = "returned"
         /\ sims[i].rainfall = sims[j].rainfall
         /\ sims[i].duration_hours = sims[j].duration_hours) =>
            sims[i].water_levels = sims[j].water_levels

\* C6: interleaved invocations need no coordination: each returns the series it
\* would return running alone from its first draw on, no draw of it being taken
\* or shifted by another invocation.
C6_InterleavingIsInvisible ==
    \A i \in DOMAIN sims :
        sims[i].pc = "returned" =>
            sims[i].water_levels =
                SeriesFrom(sims[i].rainfall, sims[i].duration_hours, sims[i].first_draw)

\* the largest value of a non-empty sequence
SeqMax(s) == CHOOSE m \in {s[h] : h \in 1..Len(s)} : \A h \in 1..Len(s) : s[h] <= m

\* the hours 0..duration of an invocation in the rising phase, and in the recession
RisingHours(duration) == {h \in 0..duration : Progress(h, duration) < peak_time}
RecessionHours(duration) == {h \in 0..duration : Progress(h, duration) >= peak_time}

\* the samples of the hours in H never decrease / never increase with the hour
NonDecreasingOver(s, H) == \A g, h \in H : g <= h => s[g + 1] <= s[h + 1]
NonIncreasingOver(s, H) == \A g, h \in H : g <= h => s[g + 1] >= s[h + 1]

\* C10 as stated: without noise, for rainfall > 0 and duration_hours H >= 1, the
\* samples never decrease over the hours with h/H < 0.7, never increase over the
\* hours with h/H >= 0.7, the largest sample is the peak level rainfall / 100, and
\* the sample of hour H is 0.
C10_PeakIsReached ==
    \A i \in DOMAIN sims :
        (sims[i].pc = "returned" /\ sims[i].rainfall > 0 /\ sims[i].duration_hours >= 1) =>
            LET s == sims[i].water_levels
                H == sims[i].duration_hours
            IN  /\ NonDecreasingOver(s, RisingHours(H))
                /\ NonIncreasingOver(s, RecessionHours(H))
                /\ SeqMax(s) = RainfallOver100(sims[i].rainfall)
                /\ s[H + 1] = 0

\* C10 as amended: without noise, for rainfall > 0 and duration_hours H >= 1, the
\* samples never decrease over the hours with h/H < 0.7, never increase over the
\* hours with h/H >= 0.7, and the sample of hour H is 0; no sample exceeds the peak
\* level rainfall / 100, and the largest sample equals it whenever some hour h has
\* h/H = 0.7 (H a multiple of 10).
C10_PeakIsBound ==
    \A i \in DOMAIN sims :
        (sims[i].pc = "returned" /\ sims[i].rainfall > 0 /\ sims[i].duration_hours >= 1) =>
            LET s == sims[i].water_levels
                H == sims[i].duration_hours
            IN  /\ NonDecreasingOver(s, RisingHours(H))
                /\ NonIncreasingOver(s, RecessionHours(H))
                /\ SeqMax(s) <= RainfallOver100(sims[i].rainfall)
                /\ (\E h \in 0..H : 10 * h = 7 * H) =>
                      SeqMax(s) = RainfallOver100(sims[i].rainfall)
                /\ s[H + 1] = 0

\* 450 mm over 10 hours has returned: it rose for 7 hours, hour 7 lies at progress
\* 0.7 and holds the peak level 4.5, and the levels fell to 0 after it
C10_Witness ==
    /\ sims[1].pc = "returned"
    /\ sims[1].rainfall = MM(450)
    /\ sims[1].duration_hours = 10
    /\ sims[1].water_levels[7] > sims[1].water_levels[6]
    /\ sims[1].water_levels[8] = RainfallOver100(MM(450))
    /\ sims[1].water_levels[9] < sims[1].water_levels[8]
    /\ sims[1].water_levels[9] > sims[1].water_levels[10]
    /\ sims[1].water_levels[11] = 0

====
